---- MODULE Spec2Model ----
(***************************************************************************)
(* Topic-modeling service of mdfocus-electron: the request model and the   *)
(* POST /analyze handler (main.py) and TopicAnalyzer (topic_analyzer.py).  *)
(* BERTopic is an external collaborator: what it returns for a corpus is   *)
(* the record `oracle`, fixed by the environment before the call.          *)
(***************************************************************************)
EXTENDS Integers, Sequences, FiniteSets, TLC

VARIABLES
    request,    \* constructor arguments and analyze_topics arguments / the POST body
    oracle,     \* what BERTopic does on this corpus: raises, labels, info rows, keywords
    pc,         \* position of the caller
    fitCalls,   \* number of calls of BERTopic.fit_transform
    outcome,    \* what TopicAnalyzer.analyze_topics returned or raised
    response,   \* the HTTP response of POST /analyze
    fitted,     \* hasattr(self.model, "topics_")
    mergeCalls, \* number of calls of BERTopic.reduce_topics
    last,       \* what the last get_topic_info or reduce_topics call gave
    install     \* install_deps.install_package: its loop and what it returned

vars == <<request, oracle, pc, fitCalls, outcome, response, fitted, mergeCalls, last,
          install>>

(* ------------------------------ constants ------------------------------ *)

Outlier == -1
MinDocsFloor == 10
MinLength == 5
DefaultMinTopicSize == 5
MinTopicSizeGe == 2
MinTopicSizeLe == 50
TopKeywords == 20
LabelKeywords == 5
NrTopicsNone == 0
NrTopicsGe == 2
NrTopicsLe == 100
HTTP_200_OK == 200
HTTP_400_BAD_REQUEST == 400
HTTP_422_UNPROCESSABLE_ENTITY == 422
HTTP_500_INTERNAL_SERVER_ERROR == 500

AllowedLanguages == {"french", "english", "multilingual"}

(* ------------------------------- bounds -------------------------------- *)

MaxDocs == 12
MaxMinTopicSize == 6
MaxChanges == 2
MaxKw == 21
EmbDim == 2
MaxMerges == 2
MaxRetries == 4

TopicLabels == {0, 2}
Labels == {Outlier} \cup TopicLabels
KwLens == {0, MaxKw}

(* ------------------------------- helpers ------------------------------- *)

Max(a, b) == IF a >= b THEN a ELSE b
Min(a, b) == IF a <= b THEN a ELSE b
SetOf(s) == {s[i] : i \in DOMAIN s}
CountOf(s, x) == Cardinality({i \in DOMAIN s : s[i] = x})
Indices(n) == [i \in 1..n |-> i]

NoError == [kind |-> "none", reason |-> "none"]
NoStatistics ==
    [total_documents |-> 0, num_topics |-> 0, num_outliers |-> 0,
     num_documents_in_topics |-> 0]
NoResult ==
    [topics |-> <<>>, topic_assignments |-> <<>>, outliers |-> <<>>,
     statistics |-> NoStatistics]

(* --------------------------- TopicAnalyzer ----------------------------- *)

\* np.isnan(embeddings).any() / np.isinf(embeddings).any()
HasValue(embeddings, v) ==
    \E i \in DOMAIN embeddings : \E j \in DOMAIN embeddings[i] : embeddings[i][j] = v

\* the threshold without the doubling of min_topic_size
min_required_single(min_topic_size) == Max(min_topic_size, MinDocsFloor)

\* min_required = max(self.min_topic_size * 2, 10)
min_required(min_topic_size) == Max(min_topic_size * 2, MinDocsFloor)

\* num_topics = len(unique_topics) - (1 if -1 in unique_topics else 0)
num_topics_found(topics) ==
    Cardinality(SetOf(topics)) - (IF Outlier \in SetOf(topics) THEN 1 ELSE 0)

\* "num_topics": len(set(topics)) - 1
num_topics_stat(topics) == Cardinality(SetOf(topics)) - 1

\* self.model.get_topic(topic_id): the ranked (word, score) pairs of a label
get_topic(env, topic_id) ==
    IF topic_id \in DOMAIN env.kw
    THEN [r \in 1..env.kw[topic_id] |-> [word |-> <<topic_id, r>>, score |-> MaxKw + 1 - r]]
    ELSE <<>>

\* the keywords without the cut at 20
keywords_uncut(topic_words) ==
    [r \in 1..Len(topic_words) |-> topic_words[r].word]

\* keywords = [word for word, score in topic_words[:20]]
keywords_of(topic_words) ==
    [r \in 1..Min(Len(topic_words), TopKeywords) |-> topic_words[r].word]

\* label = " - ".join(keywords[:5])
label_of(keywords) == SubSeq(keywords, 1, Min(Len(keywords), LabelKeywords))

\* doc_indices = [i for i, t in enumerate(topics) if t == topic_id]
doc_indices(topics, topic_id) ==
    SelectSeq(Indices(Len(topics)), LAMBDA i : topics[i] = topic_id)

\* assigned_docs = [document_ids[i] for i in doc_indices]
assigned_docs(document_ids, idx) == [k \in 1..Len(idx) |-> document_ids[idx[k]]]

\* one Topic record appended by the loop over topic_info rows
topic_record(env, topics, document_ids, topic_id) ==
    LET keywords == keywords_of(get_topic(env, topic_id))
        docs == assigned_docs(document_ids, doc_indices(topics, topic_id))
    IN  [id |-> topic_id, label |-> label_of(keywords), keywords |-> keywords,
         documents |-> docs, size |-> Len(docs)]

\* the row is skipped when it is the outlier row or get_topic is falsy
row_emitted(env, topic_id) ==
    topic_id # Outlier /\ Len(get_topic(env, topic_id)) > 0

\* for _, row in topic_info.iterrows(): ... result["topics"].append(...)
RECURSIVE build_topics(_, _, _, _)
build_topics(env, topics, document_ids, k) ==
    IF k = 0 THEN <<>>
    ELSE LET before == build_topics(env, topics, document_ids, k - 1)
             topic_id == env.info[k]
         IN  IF row_emitted(env, topic_id)
             THEN Append(before, topic_record(env, topics, document_ids, topic_id))
             ELSE before

\* a sort that puts an element before the elements of its own size
insert_by_size_unstable(sorted, x) ==
    LET p == Cardinality({j \in DOMAIN sorted : sorted[j].size > x.size})
    IN  SubSeq(sorted, 1, p) \o <<x>> \o SubSeq(sorted, p + 1, Len(sorted))

\* result["topics"].sort(key=lambda x: x["size"], reverse=True): stable,
\* an element goes after every element that is at least as large
insert_by_size(sorted, x) ==
    LET p == Cardinality({j \in DOMAIN sorted : sorted[j].size >= x.size})
    IN  SubSeq(sorted, 1, p) \o <<x>> \o SubSeq(sorted, p + 1, Len(sorted))

RECURSIVE sort_by_size(_)
sort_by_size(s) ==
    IF s = <<>> THEN <<>>
    ELSE insert_by_size(sort_by_size(SubSeq(s, 1, Len(s) - 1)), s[Len(s)])

\* the mapping loop without its outlier branch: every document is a key
topic_assignments_all(topics, document_ids) ==
    LET at(d) == {i \in DOMAIN topics : document_ids[i] = d}
        keys == {document_ids[i] : i \in DOMAIN topics}
    IN  [d \in keys |-> topics[CHOOSE i \in at(d) : \A j \in at(d) : j <= i]]

\* result["topic_assignments"][doc_id] = int(topic_id): a later index overwrites
topic_assignments_of(topics, document_ids) ==
    LET at(d) == {i \in DOMAIN topics : document_ids[i] = d /\ topics[i] # Outlier}
        keys == {document_ids[i] : i \in {j \in DOMAIN topics : topics[j] # Outlier}}
    IN  [d \in keys |-> topics[CHOOSE i \in at(d) : \A j \in at(d) : j <= i]]

\* result["outliers"].append(doc_id), in request order
outliers_of(topics, document_ids) ==
    assigned_docs(document_ids, doc_indices(topics, Outlier))

\* the "statistics" entry of result
statistics_of(topics, documents) ==
    [total_documents |-> Len(documents),
     num_topics |-> num_topics_stat(topics),
     num_outliers |-> CountOf(topics, Outlier),
     num_documents_in_topics |-> Len(documents) - CountOf(topics, Outlier)]

\* lines 266-331: the result built from the label array
assemble(env, documents, document_ids) ==
    [topics |-> sort_by_size(build_topics(env, env.labels, document_ids, Len(env.info))),
     topic_assignments |-> topic_assignments_of(env.labels, document_ids),
     outliers |-> outliers_of(env.labels, document_ids),
     statistics |-> statistics_of(env.labels, documents)]

Raised(kind, reason, fit) ==
    [status |-> "error", error |-> [kind |-> kind, reason |-> reason],
     result |-> NoResult, fit |-> fit]
Returned(result) ==
    [status |-> "ok", error |-> NoError, result |-> result, fit |-> 1]

\* the checks without those of the embedding values
precheck_size_only(min_topic_size, embeddings) ==
    IF Len(embeddings) < min_required(min_topic_size) THEN "Not enough documents"
    ELSE "ok"

\* the checks made before the oracle is fitted (lines 202-224)
precheck(min_topic_size, embeddings) ==
    IF Len(embeddings) < min_required(min_topic_size) THEN "Not enough documents"
    ELSE IF HasValue(embeddings, "nan") THEN "Embeddings contain NaN values"
    ELSE IF HasValue(embeddings, "inf") THEN "Embeddings contain infinite values"
    ELSE "ok"

\* TopicAnalyzer.analyze_topics
analyze_topics(min_topic_size, embeddings, documents, document_ids, env) ==
    IF precheck(min_topic_size, embeddings) # "ok"
    THEN Raised("ValueError", precheck(min_topic_size, embeddings), 0)
    ELSE IF env.raises # "none"
    THEN Raised(env.raises, "fit_transform failed", 1)
    ELSE IF num_topics_found(env.labels) = 0
    THEN Raised("ValueError", "No topics found", 1)
    ELSE IF Len(document_ids) < Len(env.labels)
    THEN Raised("IndexError", "list index out of range", 1)
    ELSE Returned(assemble(env, documents, document_ids))

Found(info) == [found |-> TRUE, value |-> info]
NotFound == [found |-> FALSE, value |-> [id |-> Outlier, keywords |-> <<>>]]

\* a lookup that cuts the keyword list as analyze_topics does
get_topic_info_cut(is_fitted, env, topic_id) ==
    IF ~is_fitted \/ Len(get_topic(env, topic_id)) = 0 THEN NotFound
    ELSE Found([id |-> topic_id,
                keywords |-> SubSeq(get_topic(env, topic_id), 1,
                                    Min(Len(get_topic(env, topic_id)), TopKeywords))])

\* TopicAnalyzer.get_topic_info: None, or the id with every (word, score) pair
get_topic_info(is_fitted, env, topic_id) ==
    IF ~is_fitted THEN NotFound
    ELSE IF Len(get_topic(env, topic_id)) = 0 THEN NotFound
    ELSE Found([id |-> topic_id, keywords |-> get_topic(env, topic_id)])

\* the oracle's merge: when more topics are present than asked for, they
\* become the smallest label present
merge_to(env, nr_topics) ==
    LET found == SetOf(env.labels) \ {Outlier}
        keep == CHOOSE t \in found : \A u \in found : t <= u
    IN  IF Cardinality(found) <= nr_topics THEN env
        ELSE [env EXCEPT
                 !.labels = [i \in DOMAIN env.labels |->
                                IF env.labels[i] = Outlier THEN Outlier ELSE keep],
                 !.info = SelectSeq(env.info, LAMBDA t : t \in {Outlier, keep}),
                 !.kw = [t \in DOMAIN env.kw |-> IF t = keep THEN env.kw[t] ELSE 0]]

\* TopicAnalyzer.reduce_topics; merges: whether the oracle's reduce_topics returns
reduce_topics(is_fitted, env, nr_topics, merges) ==
    IF ~is_fitted
    THEN [status |-> "raised", asked |-> 0, env |-> env,
          error |-> [kind |-> "ValueError",
                     reason |-> "Model must be fitted before reducing topics"]]
    ELSE IF merges
    THEN [status |-> "returned", asked |-> 1, env |-> merge_to(env, nr_topics),
          error |-> NoError]
    ELSE [status |-> "raised", asked |-> 1, env |-> env,
          error |-> [kind |-> "RuntimeError", reason |-> "reduce_topics failed"]]

(* ------------------------- main.py: POST /analyze ---------------------- *)

\* field_validator('embeddings'): all(len(emb) == first_len for emb in v)
validate_embeddings(v) == \A i \in DOMAIN v : Len(v[i]) = Len(v[1])

\* field_validator('language')
validate_language(v) == v \in AllowedLanguages

\* the Field(...) constraints and field validators of AnalyzeRequest; a field
\* validator runs only on a value that met the field's own constraints
field_errors(req) ==
    (IF Len(req.embeddings) < MinLength THEN {"embeddings: too short"}
     ELSE IF ~validate_embeddings(req.embeddings)
          THEN {"All embeddings must have the same dimension"} ELSE {})
    \cup (IF Len(req.documents) < MinLength THEN {"documents: too short"} ELSE {})
    \cup (IF Len(req.document_ids) < MinLength THEN {"document_ids: too short"} ELSE {})
    \cup (IF req.min_topic_size < MinTopicSizeGe THEN {"min_topic_size: ge"} ELSE {})
    \cup (IF req.min_topic_size > MinTopicSizeLe THEN {"min_topic_size: le"} ELSE {})
    \cup (IF req.nr_topics # NrTopicsNone /\ req.nr_topics < NrTopicsGe
          THEN {"nr_topics: ge"} ELSE {})
    \cup (IF req.nr_topics > NrTopicsLe THEN {"nr_topics: le"} ELSE {})
    \cup (IF ~validate_language(req.language) THEN {"Language must be one of"} ELSE {})

\* model_validator(mode='after'): runs once every field is valid
validate_same_length(req) ==
    IF Len(req.documents) # Len(req.embeddings) THEN {"Length mismatch: documents"}
    ELSE IF Len(req.document_ids) # Len(req.embeddings)
         THEN {"Length mismatch: document_ids"} ELSE {}

\* the reasons for which the request model rejects the body
request_errors(req) ==
    IF field_errors(req) # {} THEN field_errors(req) ELSE validate_same_length(req)

\* np.array(request.embeddings, dtype=np.float32): a finite value beyond the
\* float32 range becomes infinite
to_float32(embeddings) ==
    [i \in DOMAIN embeddings |->
        [j \in DOMAIN embeddings[i] |->
            IF embeddings[i][j] = "big" THEN "inf" ELSE embeddings[i][j]]]

NoResponse == [status |-> 0, kind |-> "none", reasons |-> {}, body |-> NoResult]

\* a body the request model rejects never reaches the handler: the framework
\* answers it
validation_response(reasons) ==
    [status |-> HTTP_422_UNPROCESSABLE_ENTITY, kind |-> "RequestValidationError",
     reasons |-> reasons, body |-> NoResult]

\* except ValueError -> 400 "Invalid request: {e}";
\* except Exception -> 500 "Topic analysis failed: {type(e).__name__}: {e}"
error_response(error) ==
    IF error.kind = "ValueError"
    THEN [status |-> HTTP_400_BAD_REQUEST, kind |-> "none",
          reasons |-> {error.reason}, body |-> NoResult]
    ELSE [status |-> HTTP_500_INTERNAL_SERVER_ERROR, kind |-> error.kind,
          reasons |-> {error.reason}, body |-> NoResult]

\* return AnalyzeResponse(...)
ok_response(result) ==
    [status |-> HTTP_200_OK, kind |-> "none", reasons |-> {}, body |-> result]

\* the call made by the handler body (lines 171-193)
handler_outcome(req, env) ==
    analyze_topics(req.min_topic_size, to_float32(req.embeddings), req.documents,
                   req.document_ids, env)

(* ---------------------- install_deps.py: install_package -------------- *)

PipOutcomes == {"ok", "nonzero", "timeout"}

\* cmd: pip install --no-cache-dir --timeout=600 [--no-deps] package
pip_run(no_deps, out) == [no_deps |-> no_deps, out |-> out]

\* one pass of the loop body in which a successful run does not return
loop_body_no_return(inst, out) ==
    LET ran == [inst EXCEPT !.runs = Append(@, pip_run(inst.no_deps, out))]
    IN  IF inst.attempt < inst.retries - 1
        THEN [ran EXCEPT !.attempt = @ + 1]
        ELSE [ran EXCEPT !.pc = "done", !.result = IF out = "ok" THEN "True" ELSE "False"]

\* one pass of the loop body: run pip; return True on success; on a timeout
\* or a non-zero exit continue while attempt < retries - 1, else return False
loop_body(inst, out) ==
    LET ran == [inst EXCEPT !.runs = Append(@, pip_run(inst.no_deps, out))]
    IN  IF out = "ok"
        THEN [ran EXCEPT !.pc = "done", !.result = "True"]
        ELSE IF inst.attempt < inst.retries - 1
        THEN [ran EXCEPT !.attempt = @ + 1]
        ELSE [ran EXCEPT !.pc = "done", !.result = "False"]

(* ------------------------------ the inputs ----------------------------- *)

CleanVec == [j \in 1..EmbDim |-> "fin"]
OddVec(v) == [j \in 1..EmbDim |-> IF j = 1 THEN v ELSE "fin"]
ShortVec == [j \in 1..(EmbDim - 1) |-> "fin"]
EmbeddingsWith(n, pos, vec) == [i \in 1..n |-> IF i = pos THEN vec ELSE CleanVec]

\* rectangular matrices: clean, or one row holding a NaN, an infinity, or a
\* value beyond the float32 range
Matrices(n) ==
    {EmbeddingsWith(n, 0, CleanVec)}
    \cup {EmbeddingsWith(n, p, OddVec(v)) : p \in {1, n} \cap (1..n), v \in {"nan", "inf", "big"}}

\* ragged lists, as a JSON body can hold
RaggedLists(n) == {EmbeddingsWith(n, p, ShortVec) : p \in {1, n} \cap (2..n)}

UniqueIds(n) == Indices(n)
DupIds(n) == [i \in 1..n |-> IF i = n THEN 1 ELSE i]

RECURSIVE SortedSeq(_)
SortedSeq(S) ==
    IF S = {} THEN <<>>
    ELSE LET m == CHOOSE x \in S : \A y \in S : x <= y
         IN  <<m>> \o SortedSeq(S \ {m})
Reverse(s) == [i \in 1..Len(s) |-> s[Len(s) + 1 - i]]

\* label arrays of length n in which the label changes at most c times
RECURSIVE LabelArrays(_, _)
LabelArrays(n, c) ==
    IF n = 0 THEN {<<>>}
    ELSE IF n = 1 THEN {<<l>> : l \in Labels}
    ELSE {Append(s, s[n - 1]) : s \in LabelArrays(n - 1, c)}
         \cup (IF c = 0 THEN {}
               ELSE UNION {{Append(s, l) : l \in Labels \ {s[n - 1]}} :
                           s \in LabelArrays(n - 1, c - 1)})

\* get_topic_info() has one row per label present; the row order is the oracle's
InfoOrders(labels) == {SortedSeq(SetOf(labels)), Reverse(SortedSeq(SetOf(labels)))}

Answer(labels, info, kw) == [raises |-> "none", labels |-> labels, info |-> info, kw |-> kw]
OracleRaises(kind) ==
    [raises |-> kind, labels |-> <<>>, info |-> <<>>, kw |-> [l \in TopicLabels |-> 0]]
OracleFailures == {OracleRaises("RuntimeError"), OracleRaises("ValueError")}

Halves(n) == [i \in 1..n |-> IF 2 * i <= n THEN 0 ELSE 2]
AllOutliers(n) == [i \in 1..n |-> Outlier]

\* keyword lists longer than the cut, or a long one and short ones
LongLists == [t \in TopicLabels |-> MaxKw]
MixedLists == [t \in TopicLabels |-> IF t = 0 THEN MaxKw ELSE t + 1]

\* a few answers: only outliers, two halves, a failure
FewAnswers(n) ==
    {Answer(l, SortedSeq(SetOf(l)), kw) :
        l \in {Halves(n), AllOutliers(n)}, kw \in {LongLists, MixedLists}}
    \cup OracleFailures

\* every label array with at most MaxChanges changes, either row order, any
\* keyword list lengths
ManyAnswers(n) ==
    UNION {{Answer(l, info, kw) : info \in InfoOrders(l), kw \in [TopicLabels -> KwLens]} :
           l \in LabelArrays(n, MaxChanges)}
    \cup OracleFailures

Request(m, nr, lang, emb, docs, ids) ==
    [min_topic_size |-> m, nr_topics |-> nr, language |-> lang,
     embeddings |-> emb, documents |-> docs, document_ids |-> ids]

NotCalled == [status |-> "none", error |-> NoError, result |-> NoResult, fit |-> 0]

NoInfo == [id |-> Outlier, keywords |-> <<>>]
NoCall ==
    [op |-> "none", arg |-> 0, status |-> "none", found |-> FALSE, value |-> NoInfo,
     error |-> NoError]
NotInstalling ==
    [pc |-> "idle", retries |-> 0, no_deps |-> FALSE, attempt |-> 0, runs |-> <<>>,
     result |-> "none"]

\* a TopicAnalyzer as __init__ leaves it
Constructed ==
    /\ fitCalls = 0
    /\ outcome = NotCalled
    /\ fitted = FALSE
    /\ mergeCalls = 0
    /\ last = NoCall

\* fit_transform sets the model's topics_ when it returns
fit_completes(out, env) == out.fit = 1 /\ env.raises = "none"

(* ------------------- TopicAnalyzer used directly ----------------------- *)

\* any size of corpus and any min_topic_size, with few oracle answers
ThresholdInit ==
    \E m \in MinTopicSizeGe..MaxMinTopicSize, n \in 0..MaxDocs :
        /\ \/ \E emb \in Matrices(n) :
                request = Request(m, NrTopicsNone, "multilingual", emb, Indices(n), UniqueIds(n))
           \/ \E k \in {n - 1, n + 1} \cap (0..(MaxDocs + 1)) :
                request = Request(m, NrTopicsNone, "multilingual",
                                  EmbeddingsWith(n, 0, CleanVec), Indices(n), UniqueIds(k))
        /\ oracle \in FewAnswers(n)

\* the smallest corpus the default min_topic_size accepts, with many oracle answers
AssemblyInit ==
    LET n == min_required(DefaultMinTopicSize)
    IN  /\ \E nr \in {NrTopicsNone, NrTopicsGe}, ids \in {UniqueIds(n), DupIds(n)} :
            request = Request(DefaultMinTopicSize, nr, "multilingual",
                              EmbeddingsWith(n, 0, CleanVec), Indices(n), ids)
        /\ oracle \in ManyAnswers(n)

Init ==
    /\ ThresholdInit \/ AssemblyInit
    /\ pc = "ready"
    /\ Constructed
    /\ response = NoResponse
    /\ install = NotInstalling

\* analyzer.analyze_topics(embeddings, documents, document_ids)
AnalyzeTopics ==
    /\ pc = "ready"
    /\ outcome' = analyze_topics(request.min_topic_size, request.embeddings,
                                 request.documents, request.document_ids, oracle)
    /\ fitCalls' = fitCalls + outcome'.fit
    /\ fitted' = (fitted \/ fit_completes(outcome', oracle))
    /\ pc' = "returned"
    /\ UNCHANGED <<request, oracle, response, mergeCalls, last, install>>

Next == AnalyzeTopics

Spec == Init /\ [][Next]_vars

(* ------------------ a session on one TopicAnalyzer --------------------- *)

LookupIds == Labels \cup {t + 1 : t \in TopicLabels}

SessionAnswers(n) ==
    FewAnswers(n)
    \cup {Answer(Halves(n), SortedSeq(SetOf(Halves(n))), kw) : kw \in [TopicLabels -> KwLens]}

InitSession ==
    /\ \E n \in {MinDocsFloor - 1, MinDocsFloor} :
          /\ request = Request(DefaultMinTopicSize, NrTopicsNone, "multilingual",
                               EmbeddingsWith(n, 0, CleanVec), Indices(n), UniqueIds(n))
          /\ oracle \in SessionAnswers(n)
    /\ pc = "ready"
    /\ Constructed
    /\ response = NoResponse
    /\ install = NotInstalling

\* analyzer.get_topic_info(topic_id)
GetTopicInfo ==
    \E topic_id \in LookupIds :
        /\ last' = [op |-> "get_topic_info", arg |-> topic_id, status |-> "returned",
                    found |-> get_topic_info(fitted, oracle, topic_id).found,
                    value |-> get_topic_info(fitted, oracle, topic_id).value,
                    error |-> NoError]
        /\ UNCHANGED <<request, oracle, pc, fitCalls, outcome, response, fitted,
                       mergeCalls, install>>

\* analyzer.reduce_topics(nr_topics)
ReduceTopics ==
    \E nr_topics \in 1..NrTopicsGe, merges \in BOOLEAN :
        LET r == reduce_topics(fitted, oracle, nr_topics, merges)
        IN  /\ mergeCalls + r.asked <= MaxMerges
            /\ mergeCalls' = mergeCalls + r.asked
            /\ oracle' = r.env
            /\ last' = [op |-> "reduce_topics", arg |-> nr_topics, status |-> r.status,
                        found |-> FALSE, value |-> NoInfo, error |-> r.error]
            /\ UNCHANGED <<request, pc, fitCalls, outcome, response, fitted, install>>

NextSession == AnalyzeTopics \/ GetTopicInfo \/ ReduceTopics

SpecSession == InitSession /\ [][NextSession]_vars

(* --------------------------- the HTTP service -------------------------- *)

ServiceMinTopicSizes ==
    {MinTopicSizeGe - 1, MinTopicSizeGe, DefaultMinTopicSize, MaxMinTopicSize,
     MinTopicSizeLe + 1}

InitService ==
    /\ \E m \in ServiceMinTopicSizes, n \in 0..MaxDocs,
          lang \in AllowedLanguages \cup {"german"}, nr \in {NrTopicsNone, NrTopicsGe} :
            \/ \E emb \in Matrices(n) \cup RaggedLists(n) :
                 request = Request(m, nr, lang, emb, Indices(n), UniqueIds(n))
            \/ \E d \in {n, n + 1}, k \in {n - 1, n, n + 1} \cap (0..(MaxDocs + 1)) :
                 /\ <<d, k>> # <<n, n>>
                 /\ request = Request(m, nr, lang, EmbeddingsWith(n, 0, CleanVec),
                                      Indices(d), UniqueIds(k))
    /\ oracle \in FewAnswers(Len(request.documents))
    /\ pc = "received"
    /\ Constructed
    /\ response = NoResponse
    /\ install = NotInstalling

\* the body is parsed into AnalyzeRequest before the handler runs
ParseRequest ==
    /\ pc = "received"
    /\ IF request_errors(request) # {}
       THEN /\ response' = validation_response(request_errors(request))
            /\ pc' = "responded"
       ELSE /\ pc' = "handler"
            /\ UNCHANGED response
    /\ UNCHANGED <<request, oracle, fitCalls, outcome, fitted, mergeCalls, last, install>>

\* async def analyze_topics(request): the handler body, lines 171-223
PostAnalyze ==
    /\ pc = "handler"
    /\ outcome' = handler_outcome(request, oracle)
    /\ fitCalls' = fitCalls + outcome'.fit
    /\ response' = IF outcome'.status = "ok" THEN ok_response(outcome'.result)
                   ELSE error_response(outcome'.error)
    /\ fitted' = (fitted \/ fit_completes(outcome', oracle))
    /\ pc' = "responded"
    /\ UNCHANGED <<request, oracle, mergeCalls, last, install>>

NextService == ParseRequest \/ PostAnalyze

SpecService == InitService /\ [][NextService]_vars

(* ------------------------- installing a package ------------------------ *)

\* install_package(package, no_deps, retries) is entered
InitInstall ==
    /\ \E r \in 0..MaxRetries, nd \in BOOLEAN :
          install = [pc |-> "loop", retries |-> r, no_deps |-> nd, attempt |-> 0,
                     runs |-> <<>>, result |-> "none"]
    /\ request = Request(DefaultMinTopicSize, NrTopicsNone, "multilingual", <<>>, <<>>, <<>>)
    /\ oracle = OracleRaises("none")
    /\ pc = "ready"
    /\ Constructed
    /\ response = NoResponse

\* for attempt in range(retries): one subprocess.run of pip
RunPip ==
    /\ install.pc = "loop"
    /\ install.attempt < install.retries
    /\ \E out \in PipOutcomes : install' = loop_body(install, out)
    /\ UNCHANGED <<request, oracle, pc, fitCalls, outcome, response, fitted, mergeCalls,
                   last>>

\* the loop ends without a return: return False
LoopExhausted ==
    /\ install.pc = "loop"
    /\ install.attempt >= install.retries
    /\ install' = [install EXCEPT !.pc = "done", !.result = "False"]
    /\ UNCHANGED <<request, oracle, pc, fitCalls, outcome, response, fitted, mergeCalls,
                   last>>

NextInstall == RunPip \/ LoopExhausted

\* every subprocess.run returns or times out, so the loop keeps stepping
SpecInstall == InitInstall /\ [][NextInstall]_vars /\ WF_vars(NextInstall)

(* ------------------------------ the claims ----------------------------- *)

Succeeded == pc = "returned" /\ outcome.status = "ok"
Accepted == request_errors(request) = {}
Result == outcome.result
TopicIds == {Result.topics[i].id : i \in DOMAIN Result.topics}
FoundLabels == SetOf(oracle.labels) \ {Outlier}

RECURSIVE SumSizes(_)
SumSizes(topics) ==
    IF topics = <<>> THEN 0
    ELSE topics[Len(topics)].size + SumSizes(SubSeq(topics, 1, Len(topics) - 1))

\* C1: in the result of analyze_topics on a request that passes validation, the
\* sizes of the topics plus the number of outliers equal
\* statistics.total_documents, whatever keyword lists the oracle reports.
C1_SizesPlusOutliers ==
    (Succeeded /\ Accepted) =>
        SumSizes(Result.topics) + Len(Result.outliers) = Result.statistics.total_documents

UniqueIdentifiers ==
    \A i, j \in DOMAIN request.document_ids :
        request.document_ids[i] = request.document_ids[j] => i = j

\* C2: in a successful result on an accepted request with unique document
\* identifiers, every identifier is a key of topic_assignments or an entry of
\* outliers, and never both.
C2_ExactlyOne ==
    (Succeeded /\ Accepted /\ UniqueIdentifiers) =>
        \A i \in DOMAIN request.document_ids :
            LET d == request.document_ids[i]
            IN  (d \in DOMAIN Result.topic_assignments) # (d \in SetOf(Result.outliers))
C2_Witness ==
    /\ Succeeded /\ Accepted /\ UniqueIdentifiers
    /\ Result.outliers # <<>>
    /\ Cardinality(DOMAIN Result.topic_assignments) > 1

\* C3: statistics.num_topics is the number of distinct non-outlier labels of the
\* label array, with or without a document labeled -1.
C3_NumTopics ==
    Succeeded => Result.statistics.num_topics = Cardinality(FoundLabels)

KindRaisedFor(embeddings, env) ==
    analyze_topics(DefaultMinTopicSize, embeddings, Indices(Len(embeddings)),
                   UniqueIds(Len(embeddings)), env).error.kind
OtherKinds ==
    {KindRaisedFor(<<>>, oracle),
     KindRaisedFor(EmbeddingsWith(MinDocsFloor, 1, OddVec("nan")), oracle)}
    \cup {KindRaisedFor(EmbeddingsWith(MinDocsFloor, 0, CleanVec), f) : f \in OracleFailures}
OnlyOutliers ==
    /\ pc = "returned"
    /\ fitCalls = 1
    /\ oracle.raises = "none"
    /\ SetOf(oracle.labels) = {Outlier}

\* C4: when every document is labeled -1, analyze_topics returns no result and
\* fails with a kind that differs from the kind raised for too few documents,
\* for invalid embeddings and for a failure of the oracle.
C4_NoTopicsKind ==
    OnlyOutliers =>
        /\ outcome.status = "error"
        /\ outcome.result = NoResult
        /\ outcome.error.kind \notin OtherKinds

TooFew ==
    Len(request.embeddings) <
        (IF 2 * request.min_topic_size >= 10 THEN 2 * request.min_topic_size ELSE 10)

\* C7: analyze_topics fails for not enough documents exactly when
\* n < max(2 * min_topic_size, 10), and then fit_transform is not called.
C7_NotEnoughDocuments ==
    pc = "returned" =>
        /\ TooFew => /\ outcome.status = "error"
                     /\ outcome.error.reason = "Not enough documents"
                     /\ fitCalls = 0
        /\ ~TooFew => outcome.error.reason # "Not enough documents"
C7_Witness ==
    /\ pc = "returned"
    /\ Len(request.embeddings) > 10
    /\ outcome.error.reason = "Not enough documents"
    /\ fitCalls = 0

RowOf(topic_id) == CHOOSE k \in DOMAIN oracle.info : oracle.info[k] = topic_id

\* C9: the topics of a successful result are in descending order of size, and
\* topics of equal size are in the order of the oracle's rows.
C9_SortedStable ==
    Succeeded =>
        \A i, j \in DOMAIN Result.topics :
            i < j => /\ Result.topics[i].size >= Result.topics[j].size
                     /\ Result.topics[i].size = Result.topics[j].size
                            => RowOf(Result.topics[i].id) < RowOf(Result.topics[j].id)
C9_Witness ==
    /\ Succeeded
    /\ Len(Result.topics) = 2
    /\ Result.topics[1].size = Result.topics[2].size
    /\ Result.topics[1].id > Result.topics[2].id

\* C10: the topic identifiers of a successful result are pairwise distinct and
\* are exactly the distinct non-outlier labels of the label array.
C10_TopicIds ==
    Succeeded =>
        /\ \A i, j \in DOMAIN Result.topics :
               Result.topics[i].id = Result.topics[j].id => i = j
        /\ TopicIds = FoundLabels

TopicAt(i) == Result.topics[i]
RankedWords(topic_id) ==
    [r \in 1..oracle.kw[topic_id] |-> get_topic(oracle, topic_id)[r].word]

\* C11: every topic of a successful result has at most 20 keywords, which are
\* the first 20 words of the oracle's ranked list in the same order, and has
\* at least one keyword when its size is greater than 0.
C11_Keywords ==
    Succeeded =>
        \A i \in DOMAIN Result.topics :
            LET ranked == RankedWords(TopicAt(i).id)
            IN  /\ Len(TopicAt(i).keywords) <= 20
                /\ Len(TopicAt(i).keywords) = (IF Len(ranked) <= 20 THEN Len(ranked) ELSE 20)
                /\ \A r \in DOMAIN TopicAt(i).keywords : TopicAt(i).keywords[r] = ranked[r]
                /\ TopicAt(i).size > 0 => TopicAt(i).keywords # <<>>
C11_Witness ==
    /\ Succeeded
    /\ \E i, j \in DOMAIN Result.topics :
          /\ Len(RankedWords(TopicAt(i).id)) > 20
          /\ Len(TopicAt(i).keywords) = 20
          /\ Len(TopicAt(j).keywords) < 20
          /\ TopicAt(j).size > 0

Requested == request.nr_topics # NrTopicsNone
FewerThanRequested ==
    /\ pc = "returned"
    /\ Accepted
    /\ Requested
    /\ fitCalls = 1
    /\ oracle.raises = "none"
    /\ Cardinality(FoundLabels) >= 1
    /\ Cardinality(FoundLabels) < request.nr_topics

\* C12: when nr_topics was requested and the oracle produces k distinct
\* non-outlier labels with 1 <= k < nr_topics, analyze_topics raises no error
\* and returns exactly k topics, with sizes plus outliers equal to the total
\* and num_topics = k.
C12_FewerThanRequested ==
    FewerThanRequested =>
        /\ outcome.status = "ok"
        /\ Len(Result.topics) = Cardinality(FoundLabels)
        /\ SumSizes(Result.topics) + Len(Result.outliers)
               = Result.statistics.total_documents
        /\ Result.statistics.num_topics = Cardinality(FoundLabels)

\* C15: in a successful result on unique document identifiers, every document
\* listed in a topic is assigned that topic's id, and every key of
\* topic_assignments is listed in exactly one topic, the one with the id it is
\* assigned.
C15_ViewsAgree ==
    (Succeeded /\ Accepted /\ UniqueIdentifiers) =>
        /\ \A i \in DOMAIN Result.topics :
               \A d \in SetOf(TopicAt(i).documents) :
                   /\ d \in DOMAIN Result.topic_assignments
                   /\ Result.topic_assignments[d] = TopicAt(i).id
        /\ \A d \in DOMAIN Result.topic_assignments :
               Cardinality({i \in DOMAIN Result.topics :
                               /\ TopicAt(i).id = Result.topic_assignments[d]
                               /\ d \in SetOf(TopicAt(i).documents)}) = 1

(* claims about a session on one analyzer, under SpecSession *)

\* C13: while no analyze_topics call has completed successfully, reduce_topics
\* fails with the not-fitted failure and the oracle is never asked to merge.
C13_ReduceBeforeFit ==
    outcome.status # "ok" =>
        /\ mergeCalls = 0
        /\ last.op = "reduce_topics" =>
               /\ last.status = "raised"
               /\ last.error.reason = "Model must be fitted before reducing topics"

LookedUp == last.op = "get_topic_info"

\* C14: get_topic_info(topic_id) never raises and changes neither the analyzer
\* nor the oracle: it returns not-found when the oracle has not been fit or the
\* identifier has no keywords, and otherwise the identifier with the oracle's
\* full list of (word, score) pairs in the oracle's order.
C14_GetTopicInfo ==
    [][(last' # last /\ last'.op = "get_topic_info") =>
          /\ UNCHANGED <<request, oracle, pc, fitCalls, outcome, response, fitted,
                         mergeCalls, install>>
          /\ last'.status = "returned"
          /\ IF ~fitted \/ Len(get_topic(oracle, last'.arg)) = 0
             THEN ~last'.found
             ELSE /\ last'.found
                  /\ last'.value.id = last'.arg
                  /\ last'.value.keywords = get_topic(oracle, last'.arg)]_vars

C14_Witness ==
    /\ LookedUp
    /\ last.found
    /\ Len(last.value.keywords) > TopKeywords
    /\ last.value.keywords[1].score > last.value.keywords[2].score

(* claims about POST /analyze, under SpecService *)

Responded == pc = "responded"

\* C5: a failure raised once validation has passed (only outliers, or a failure
\* of the oracle) is answered with status 500 and a body with the failure kind
\* and its message.
C5_ProcessingFailure500 ==
    (Responded /\ outcome.status = "error" /\ outcome.fit = 1) =>
        /\ response.status = HTTP_500_INTERNAL_SERVER_ERROR
        /\ response.kind = outcome.error.kind
        /\ response.reasons = {outcome.error.reason}

LengthsDiffer ==
    \/ Len(request.documents) # Len(request.embeddings)
    \/ Len(request.document_ids) # Len(request.embeddings)
DimensionsDiffer ==
    \E i, j \in DOMAIN request.embeddings :
        Len(request.embeddings[i]) # Len(request.embeddings[j])
LanguageUnknown == request.language \notin {"french", "english", "multilingual"}
NotFinite == HasValue(request.embeddings, "nan") \/ HasValue(request.embeddings, "inf")

\* C6: a request that violates a validator constraint is answered with status
\* 400 and a reason.
C6_Validation400 ==
    (Responded /\ (LengthsDiffer \/ DimensionsDiffer \/ LanguageUnknown \/ NotFinite \/ TooFew)) =>
        /\ response.status = HTTP_400_BAD_REQUEST
        /\ response.reasons # {}

\* C8: when the lengths differ, the dimension is not uniform, the language is
\* unknown or a value is NaN or infinite, fit_transform is never called, and the
\* request ends with a failure carrying a reason and no result.
C8_ValidateBeforeFit ==
    (LengthsDiffer \/ DimensionsDiffer \/ LanguageUnknown \/ NotFinite) =>
        /\ fitCalls = 0
        /\ outcome.result = NoResult
        /\ Responded => /\ response.status # HTTP_200_OK
                        /\ response.reasons # {}
                        /\ response.body = NoResult
C8_Witness ==
    /\ Responded
    /\ NotFinite
    /\ Accepted
    /\ ~TooFew
    /\ response.reasons \subseteq
           {"Embeddings contain NaN values", "Embeddings contain infinite values"}
    /\ response.reasons # {}

(* claims about install_package, under SpecInstall *)

Succeeded_runs == {i \in 1..Len(install.runs) : install.runs[i].out = "ok"}

InstallSafe ==
    install.retries >= 1 =>
        /\ Len(install.runs) <= install.retries
        /\ \A i \in Succeeded_runs : i = Len(install.runs) /\ install.pc = "done"
        /\ install.pc = "done" =>
               /\ install.result \in {"True", "False"}
               /\ install.result = "True" <=> Succeeded_runs # {}
               /\ install.result = "False" => Len(install.runs) = install.retries

\* C16: install_package with retries = r >= 1 runs pip at most r times, makes
\* no attempt after the first run that succeeds, and terminates, returning True
\* exactly when some attempt succeeded and False when all r attempts ended in
\* a non-zero exit or a timeout.
C16_InstallPackage == []InstallSafe /\ <>(install.pc = "done")

C16_Witness ==
    /\ install.pc = "done"
    /\ install.result = "True"
    /\ Len(install.runs) >= 2
    /\ Len(install.runs) < install.retries

====
